---- MODULE Spec2Model ----
(***************************************************************************)
(* Model of src/src/crypto/verification/request/VerificationRequest.js:    *)
(* the VerificationRequest state machine (handleEvent and the outbound     *)
(* lifecycle calls) and the static validateEvent predicate.                *)
(*                                                                         *)
(* JavaScript values that the code compares across types are records with  *)
(* a `kind` field, so that `===` between a number and a string is FALSE    *)
(* instead of a type error.                                                *)
(*                                                                         *)
(* Environment assumptions: channel.userId differs from                    *)
(* client.getUserId(); event.getContent() of an event handed to            *)
(* handleEvent has passed validateEvent.                                   *)
(***************************************************************************)
EXTENDS Integers, Sequences, FiniteSets, TLC

\* ------------------------------------------------------------------ bounds
\* (type, side) slots of the two event maps filled in one behaviour, when the
\* application also makes outbound calls (Spec)
MaxStored == 2
\* the same when only inbound events are handled (SpecInbound)
MaxStoredInbound == 4
\* channel sends whose promise has not resolved yet
MaxPending == 1
\* the slots filled in a behaviour that has a waiter (SpecWait)
MaxStoredWait == 2
\* milliseconds tried on each side of the two limits of validateEvent
MaxSkew == 1

\* --------------------------------------------------------------- constants
VERIFICATION_REQUEST_TIMEOUT == 10 * 60 * 1000
VERIFICATION_REQUEST_MARGIN == 3 * 1000

EVENT_PREFIX == "m.key.verification."
REQUEST_TYPE == EVENT_PREFIX \o "request"
START_TYPE == EVENT_PREFIX \o "start"
CANCEL_TYPE == EVENT_PREFIX \o "cancel"
DONE_TYPE == EVENT_PREFIX \o "done"
READY_TYPE == EVENT_PREFIX \o "ready"

PHASE_UNSENT == 1
PHASE_REQUESTED == 2
PHASE_READY == 3
PHASE_STARTED == 4
PHASE_CANCELLED == 5
PHASE_DONE == 6

\* ---------------------------------------------------------- JS value layer
undefined == [kind |-> "undefined"]
Num(n) == [kind |-> "number", val |-> n]
Str(s) == [kind |-> "string", val |-> s]
\* a === b
StrictEq(a, b) == a.kind = b.kind /\ (a.kind = "undefined" \/ a.val = b.val)
\* truthiness of undefined / object values
Truthy(v) == v.kind # "undefined"

\* Map.prototype.get / set; the entries of a Map are its domain
MapGet(m, k) == IF k \in DOMAIN m THEN m[k] ELSE undefined
\* variant: the map keeps only the event stored last
MapSet_onlyLatest(m, k, v) == [x \in {k} |-> v]
MapSet(m, k, v) == [x \in (DOMAIN m) \cup {k} |-> IF x = k THEN v ELSE m[x]]
EmptyMap == [x \in {} |-> undefined]
\* m[k] on a Map object: a property lookup, which Map.prototype.set never
\* feeds, so the result is undefined whatever the entries are
MapProp(m, k) == undefined

\* ------------------------------------------------------------- environment
\* this._client.getUserId(), this._client.getDeviceId(), this.channel.userId
OwnUserId == "@me"
OwnDeviceId == "MYDEVICE"
otherUserId == "@them"
ThirdUserId == "@eve"
OtherDeviceId == "OTHERDEVICE"

\* this._verificationMethods: keys in insertion order
LocalMethods == <<"sas", "qr">>
\* variant: every advertised method counts as supported
_verificationMethods_has_any(m) == TRUE
_verificationMethods_has(m) == \E i \in 1..Len(LocalMethods) : LocalMethods[i] = m

\* method lists advertised by the counterparty's device, and by another device
\* of the local user
RemoteMethodLists == {<<"x", "sas">>, <<"x">>}
OwnOtherDeviceMethodLists == {<<"qr">>}
StartMethods == {"sas"}

\* an event as handleEvent sees it: getSender() and the fields of getContent()
Event(type, sender, dev, methods, method) ==
    [kind |-> "event", type |-> type, sender |-> sender, from_device |-> dev,
     methods |-> methods, method |-> method]

DevicesOf(sender) == IF sender = OwnUserId THEN {OwnDeviceId, OtherDeviceId} ELSE {OtherDeviceId}
\* the local device advertises its whole registry (sendRequest, accept)
MethodListsOf(sender, dev) ==
    IF sender = OwnUserId /\ dev = OwnDeviceId THEN {LocalMethods}
    ELSE IF sender = OwnUserId THEN OwnOtherDeviceMethodLists
    ELSE RemoteMethodLists

Senders == {OwnUserId, otherUserId, ThirdUserId}

InboundEvents ==
    {Event(t, s, d, ms, "") : t \in {REQUEST_TYPE, READY_TYPE}, s \in Senders,
                              d \in {OwnDeviceId, OtherDeviceId},
                              ms \in RemoteMethodLists \cup OwnOtherDeviceMethodLists \cup {LocalMethods}}
    \cup {Event(START_TYPE, s, d, <<>>, m) : s \in Senders, d \in {OwnDeviceId, OtherDeviceId}, m \in StartMethods}
    \cup {Event(t, s, "", <<>>, "") : t \in {CANCEL_TYPE, DONE_TYPE}, s \in Senders}

\* a sender that is neither party is tried with one request and one cancel
WellFormed(e) ==
    /\ e.sender = ThirdUserId => e.type \in {REQUEST_TYPE, CANCEL_TYPE} /\ e.methods # <<"x">>
    /\ e.type \in {REQUEST_TYPE, READY_TYPE, START_TYPE} => e.from_device \in DevicesOf(e.sender)
    /\ e.type \in {REQUEST_TYPE, READY_TYPE} => e.methods \in MethodListsOf(e.sender, e.from_device)

\* ------------------------------------------------------------------- state
VARIABLES
    _phase,             \* this._phase, a JS value
    _commonMethods,     \* this._commonMethods
    _eventsByUs,        \* this._eventsByUs: type -> event
    _eventsByThem,      \* this._eventsByThem
    _observeOnly,       \* this._observeOnly
    _verifier,          \* this._verifier: undefined or a verifier object
    _initiatedByMe,     \* this._initiatedByMe: TRUE or FALSE for undefined
    _cancellingUserId,  \* this._cancellingUserId: a user id, "" for undefined
    canCreateRequest,   \* this.channel.constructor.canCreateRequest(START_TYPE)
    pending,            \* channel.send promises not resolved yet
    replaced,           \* history: some stored event was replaced by a different one
    last,               \* what the last call gave out
    validated,          \* the last validateEvent call: its arguments and its result
    waiter              \* the promise of a waitFor call and its "change" listener

vars == <<_phase, _commonMethods, _eventsByUs, _eventsByThem, _observeOnly, _verifier,
          _initiatedByMe, _cancellingUserId, canCreateRequest, pending, replaced, last,
          validated, waiter>>

request == <<_phase, _commonMethods, _eventsByUs, _eventsByThem, _observeOnly, _verifier,
             _initiatedByMe, _cancellingUserId>>

\* applied: transitions handed to _transitionToPhase; emitted: "change" events;
\* sent: the type handed to channel.send; error: the exception thrown;
\* content: the code and reason handed to channel.send with a cancel;
\* delegated: verifier.cancel was called; forwarded: verifier.handleEvent was called;
\* redelivered: handleEvent was given an event that one of the maps already held
NoContent == [code |-> "", reason |-> ""]

NoCall ==
    [applied |-> 0, emitted |-> 0, sent |-> "", error |-> "",
     delegated |-> FALSE, forwarded |-> FALSE, redelivered |-> FALSE,
     content |-> NoContent]

\* ------------------------------------------------------- provenance helpers
_wasSentByOwnUser(event) == event.sender = OwnUserId

\* variant: the device id is not compared
_wasSentByOwnDevice_anyDevice(event) == _wasSentByOwnUser(event)

_wasSentByOwnDevice(event) ==
    IF ~_wasSentByOwnUser(event) THEN FALSE
    ELSE IF event.from_device # OwnDeviceId THEN FALSE
    ELSE TRUE

\* variant: only the counterparty's map is consulted
_getEventByEither_themOnly(us, them, type) == MapGet(them, type)

_getEventByEither(us, them, type) ==
    IF Truthy(MapGet(them, type)) THEN MapGet(them, type) ELSE MapGet(us, type)

_getEventByOther(us, them, type, notSender) ==
    IF notSender = OwnUserId THEN MapGet(them, type) ELSE MapGet(us, type)

\* ------------------------------------------------ _calculatePhaseTransitions
Transition(phase, event) == [phase |-> phase, event |-> event]
TopPhase(transitions) == transitions[Len(transitions)].phase

_calculatePhaseTransitions(us, them, canCreate) ==
    LET t0 == <<Transition(Num(PHASE_UNSENT), undefined)>>
        cancelEvent == _getEventByEither(us, them, CANCEL_TYPE)
        requestEvent == _getEventByEither(us, them, REQUEST_TYPE)
        readyEvent == IF Truthy(requestEvent)
                      THEN _getEventByOther(us, them, READY_TYPE, requestEvent.sender)
                      ELSE undefined
        t1 == IF Truthy(requestEvent)
              THEN Append(t0, Transition(Num(PHASE_REQUESTED), requestEvent))
              ELSE t0
        t2 == IF Truthy(requestEvent) /\ Truthy(readyEvent)
              THEN Append(t1, Transition(Num(PHASE_READY), readyEvent))
              ELSE t1
        startEvent == _getEventByEither(us, them, START_TYPE)
        fromRequestPhase == /\ StrictEq(TopPhase(t2), Num(PHASE_REQUESTED))
                            /\ requestEvent.sender # startEvent.sender
        fromUnsentPhase == StrictEq(TopPhase(t2), Num(PHASE_UNSENT)) /\ canCreate
        t3 == IF /\ Truthy(startEvent)
                 /\ (fromRequestPhase \/ StrictEq(TopPhase(t2), Num(PHASE_READY)) \/ fromUnsentPhase)
              THEN Append(t2, Transition(Str(START_TYPE), startEvent))
              ELSE t2
        ourDoneEvent == MapProp(us, DONE_TYPE)
        theirDoneEvent == MapProp(them, DONE_TYPE)
        t4 == IF /\ Truthy(ourDoneEvent) /\ Truthy(theirDoneEvent)
                 /\ StrictEq(TopPhase(t3), Str(START_TYPE))
              THEN Append(t3, Transition(Num(PHASE_DONE), undefined))
              ELSE t3
    IN  IF Truthy(cancelEvent)
        THEN Append(t0, Transition(Num(PHASE_CANCELLED), cancelEvent))
        ELSE t4

\* ---------------------------------------------------------- _createVerifier
\* this._requestEvent and this._readyEvent are read by _getVerifierTarget and
\* by the `event` getter, and no line of the class assigns them
_requestEvent == undefined
_readyEvent == undefined

TargetDevice == [kind |-> "target", userId |-> otherUserId, deviceId |-> OtherDeviceId]

\* the target, or undefined where the code throws "can't determine who ..."
_getVerifierTarget(startEvent, targetDevice) ==
    IF Truthy(targetDevice) THEN targetDevice
    ELSE IF Truthy(startEvent) /\ ~_wasSentByOwnDevice(startEvent)
         THEN [kind |-> "target", userId |-> startEvent.sender, deviceId |-> startEvent.from_device]
    ELSE IF Truthy(_readyEvent) /\ ~_wasSentByOwnDevice(_readyEvent)
         THEN [kind |-> "target", userId |-> _readyEvent.sender, deviceId |-> _readyEvent.from_device]
    ELSE IF Truthy(_requestEvent) /\ ~_wasSentByOwnDevice(_requestEvent)
         THEN [kind |-> "target", userId |-> _requestEvent.sender, deviceId |-> _requestEvent.from_device]
    ELSE undefined

\* the declared event types of a verifier built by a registry constructor
VerifierEvents == {START_TYPE, DONE_TYPE}

\* [error, verifier]: error "addressing" when _getVerifierTarget throws;
\* verifier undefined when the registry has no constructor for the method
_createVerifier(method, startEvent, targetDevice) ==
    LET initiatedByMe == ~Truthy(startEvent) \/ _wasSentByOwnDevice(startEvent)
        target == _getVerifierTarget(startEvent, targetDevice)
    IN  IF ~Truthy(target) THEN [error |-> "addressing", verifier |-> undefined]
        ELSE IF ~_verificationMethods_has(method) THEN [error |-> "", verifier |-> undefined]
        ELSE [error |-> "",
              verifier |-> [kind |-> "verifier", method |-> method, userId |-> target.userId,
                            deviceId |-> target.deviceId, resumes |-> ~initiatedByMe]]

\* -------------------------------------------------------- _transitionToPhase
\* s is the part of the request a transition writes:
\* [commonMethods, observeOnly, verifier, error]
_handleStart(s, transition) == s

_transitionToPhase(s, transition) ==
    LET phase == transition.phase
        event == transition.event
        isRequested == StrictEq(phase, Num(PHASE_REQUESTED))
        isReady == StrictEq(phase, Num(PHASE_READY))
        isStarted == StrictEq(phase, Num(PHASE_STARTED))
        commonMethods ==
            IF (isRequested \/ isReady) /\ ~_wasSentByOwnDevice(event)
            THEN SelectSeq(event.methods, _verificationMethods_has)
            ELSE s.commonMethods
        observeOnly ==
            IF s.observeOnly THEN TRUE
            ELSE IF isRequested
                 THEN _wasSentByOwnUser(event) /\ ~_wasSentByOwnDevice(event)
            ELSE IF isStarted \/ isReady
                 THEN ~_wasSentByOwnDevice(event)
            ELSE FALSE
        created ==
            IF isStarted /\ ~Truthy(s.verifier) /\ ~observeOnly
            THEN _createVerifier(event.method, event, undefined)
            ELSE [error |-> "", verifier |-> s.verifier]
        s1 == [commonMethods |-> commonMethods, observeOnly |-> observeOnly,
               verifier |-> IF created.error = "" THEN created.verifier ELSE s.verifier,
               error |-> created.error]
    IN  IF s.error # "" THEN s
        ELSE IF isStarted /\ s1.error = "" THEN _handleStart(s1, transition)
        ELSE s1

RECURSIVE ApplyTransitions(_, _)
\* for (const transition of newTransitions) this._transitionToPhase(transition)
ApplyTransitions(s, transitions) ==
    IF transitions = <<>> THEN s
    ELSE ApplyTransitions(_transitionToPhase(s, Head(transitions)), Tail(transitions))

\* transitions.findIndex(t => t.phase === phase): 0-based, -1 when absent
\* variant: the recorded phase is never found
FindIndex_absent(transitions, phase) == -1

FindIndex(transitions, phase) ==
    LET hits == {i \in 1..Len(transitions) : StrictEq(transitions[i].phase, phase)}
    IN  IF hits = {} THEN -1 ELSE (CHOOSE i \in hits : \A j \in hits : i <= j) - 1

\* variant: the slice starts at the recorded phase itself
Slice_inclusive(transitions, from) ==
    SubSeq(transitions, IF from = 0 THEN 1 ELSE from, Len(transitions))
\* variant: only the next transition is kept
Slice_nextOnly(transitions, from) ==
    IF from < Len(transitions) THEN <<transitions[from + 1]>> ELSE <<>>
\* transitions.slice(from)
Slice(transitions, from) == SubSeq(transitions, from + 1, Len(transitions))

\* ------------------------------------------------------------------- waitFor
\* the callbacks tried as fn: request => request.ready, request => request.verifier
WaitForFns == {"ready", "verifier"}

\* fn(this), read through the getters `ready` and `verifier`
Fn(fn, phase, verifier) ==
    IF fn = "ready" THEN StrictEq(phase, Num(PHASE_READY)) ELSE Truthy(verifier)

\* status: of the promise; subscribed: check is a listener of "change";
\* settleCalls: calls of resolve or reject made so far
NoWaiter == [fn |-> "", status |-> "none", subscribed |-> FALSE, settleCalls |-> 0]

\* this.off("change", check)
Off(w) == [w EXCEPT !.subscribed = FALSE]

\* a promise keeps its first settlement
Settle(w, status) ==
    [w EXCEPT !.status = IF w.status = "pending" THEN status ELSE w.status,
              !.settleCalls = w.settleCalls + 1]

\* the closure check() of waitFor, run on the request as it is at that moment
check(w, phase, verifier) ==
    IF Fn(w.fn, phase, verifier) THEN Off(Settle(w, "resolved"))
    ELSE IF StrictEq(phase, Num(PHASE_CANCELLED)) THEN Off(Settle(w, "rejected"))
    ELSE w

\* --------------------------------------------------------------- handleEvent
\* storing into the map put a different event where one was held
Replaces(old, new, type) == Truthy(MapGet(old, type)) /\ MapGet(new, type) # MapGet(old, type)

\* the part of handleEvent after the transitions are computed and applied
handleEventWith(type, event, us, them, newTransitions, s) ==
    LET forwarded == /\ s.error = ""
                     /\ Truthy(s.verifier) /\ event.sender = otherUserId
                     /\ (type = CANCEL_TYPE \/ type \in VerifierEvents)
        setPhase == s.error = "" /\ Len(newTransitions) > 0
        redelivered == \/ MapGet(_eventsByUs, type) = event
                       \/ MapGet(_eventsByThem, type) = event
    IN  /\ _eventsByUs' = us
        /\ _eventsByThem' = them
        /\ _commonMethods' = s.commonMethods
        /\ _observeOnly' = s.observeOnly
        /\ _verifier' = s.verifier
        /\ _phase' = IF setPhase THEN newTransitions[Len(newTransitions)].phase ELSE _phase
        /\ last' = [NoCall EXCEPT !.applied = Len(newTransitions),
                                  !.emitted = IF setPhase THEN 1 ELSE 0,
                                  !.error = s.error, !.forwarded = forwarded,
                                  !.redelivered = redelivered]
        /\ replaced' = (replaced \/ Replaces(_eventsByUs, us, type)
                                  \/ Replaces(_eventsByThem, them, type))
        /\ UNCHANGED <<_initiatedByMe, _cancellingUserId, canCreateRequest, pending, validated>>
        /\ waiter' = IF setPhase /\ waiter.subscribed
                      THEN check(waiter, newTransitions[Len(newTransitions)].phase, s.verifier)
                      ELSE waiter

\* each intermediate value is bound once, in the order the code computes it
handleEvent(type, event, isLiveEvent) ==
    \E observeOnly0 \in {IF ~isLiveEvent THEN TRUE ELSE _observeOnly} :
    \E us \in {IF event.sender = OwnUserId
               THEN MapSet(_eventsByUs, type, event) ELSE _eventsByUs} :
    \E them \in {IF event.sender # OwnUserId /\ event.sender = otherUserId
                 THEN MapSet(_eventsByThem, type, event) ELSE _eventsByThem} :
    \E transitions \in {_calculatePhaseTransitions(us, them, canCreateRequest)} :
    \E existingIdx \in {FindIndex(transitions, _phase)} :
    \E newTransitions \in {Slice(transitions, existingIdx + 1)} :
    \E s \in {ApplyTransitions([commonMethods |-> _commonMethods, observeOnly |-> observeOnly0,
                                verifier |-> _verifier, error |-> ""], newTransitions)} :
        handleEventWith(type, event, us, them, newTransitions, s)

ValidInbound == {e \in InboundEvents : WellFormed(e)}

\* the slots filled once the event is stored
StoredWith(event) ==
    Cardinality(DOMAIN _eventsByUs \cup (IF event.sender = OwnUserId THEN {event.type} ELSE {}))
    + Cardinality(DOMAIN _eventsByThem \cup (IF event.sender = otherUserId THEN {event.type} ELSE {}))

HandleEvent(limit) ==
    \E event \in ValidInbound, isLiveEvent \in BOOLEAN :
        /\ StoredWith(event) <= limit
        /\ handleEvent(event.type, event, isLiveEvent)

\* ------------------------------------------------------- outbound operations
\* has the request reached a phase where the methods are negotiated
_hasValidPreStartPhase ==
    \/ StrictEq(_phase, Num(PHASE_REQUESTED))
    \/ StrictEq(_phase, Num(PHASE_READY))
    \/ StrictEq(_phase, Num(PHASE_STARTED))

Includes(seq, x) == \E i \in 1..Len(seq) : seq[i] = x

beginKeyVerification(method, targetDevice) ==
    LET enters == ~_observeOnly /\ ~Truthy(_verifier) /\ _hasValidPreStartPhase
        unknown == Len(_commonMethods) # 0 /\ ~Includes(_commonMethods, method)
        created == _createVerifier(method, undefined, targetDevice)
        error == IF ~enters THEN ""
                 ELSE IF unknown THEN "unknownMethod"
                 ELSE IF created.error # "" THEN created.error
                 ELSE IF ~Truthy(created.verifier) THEN "unknownMethod"
                 ELSE ""
    IN  /\ _verifier' = IF enters /\ ~unknown /\ created.error = "" THEN created.verifier ELSE _verifier
        /\ last' = [NoCall EXCEPT !.error = error]
        /\ UNCHANGED <<_phase, _commonMethods, _eventsByUs, _eventsByThem, _observeOnly,
                       _initiatedByMe, _cancellingUserId, canCreateRequest, pending, replaced,
                       validated, waiter>>

BeginMethods == {"sas", "qr", "x"}

BeginKeyVerification ==
    \E method \in BeginMethods, targetDevice \in {undefined, TargetDevice} :
        beginKeyVerification(method, targetDevice)

\* variant: the observeOnly test is left out
sendRequest_unguarded ==
    LET sends == StrictEq(_phase, Num(PHASE_UNSENT))
    IN  /\ sends => pending < MaxPending
        /\ _initiatedByMe' = IF sends THEN TRUE ELSE _initiatedByMe
        /\ pending' = IF sends THEN pending + 1 ELSE pending
        /\ last' = [NoCall EXCEPT !.sent = IF sends THEN REQUEST_TYPE ELSE ""]
        /\ UNCHANGED <<_phase, _commonMethods, _eventsByUs, _eventsByThem, _observeOnly,
                       _verifier, _cancellingUserId, canCreateRequest, replaced, validated, waiter>>

sendRequest ==
    LET sends == ~_observeOnly /\ StrictEq(_phase, Num(PHASE_UNSENT))
    IN  /\ sends => pending < MaxPending
        /\ _initiatedByMe' = IF sends THEN TRUE ELSE _initiatedByMe
        /\ pending' = IF sends THEN pending + 1 ELSE pending
        /\ last' = [NoCall EXCEPT !.sent = IF sends THEN REQUEST_TYPE ELSE ""]
        /\ UNCHANGED <<_phase, _commonMethods, _eventsByUs, _eventsByThem, _observeOnly,
                       _verifier, _cancellingUserId, canCreateRequest, replaced, validated, waiter>>

\* the argument of cancel: an object whose reason and code may be missing
CancelArgs ==
    {[reason |-> r, code |-> c] : r \in {undefined, Str("Timed out")},
                                  c \in {undefined, Str("m.timeout")}}

\* variant: the given value is ignored
Default_always(v, d) == d
\* a destructuring default: d stands in for an undefined v
Default(v, d) == IF v = undefined THEN d ELSE v.val

\* variant: the call records the Cancelled phase itself
cancel_setsPhase(error) ==
    LET acts == ~_observeOnly /\ ~StrictEq(_phase, Num(PHASE_CANCELLED))
        delegates == acts /\ Truthy(_verifier)
        sends == acts /\ ~Truthy(_verifier)
    IN  /\ sends => pending < MaxPending
        /\ _cancellingUserId' = IF sends THEN OwnUserId ELSE _cancellingUserId
        /\ _phase' = IF sends THEN Num(PHASE_CANCELLED) ELSE _phase
        /\ pending' = IF sends THEN pending + 1 ELSE pending
        /\ last' = [NoCall EXCEPT !.delegated = delegates,
                                  !.sent = IF sends THEN CANCEL_TYPE ELSE "",
                                  !.content = IF sends
                                              THEN [code |-> Default(error.code, "m.user"),
                                                    reason |-> Default(error.reason, "User declined")]
                                              ELSE NoContent]
        /\ UNCHANGED <<_commonMethods, _eventsByUs, _eventsByThem, _observeOnly,
                       _verifier, _initiatedByMe, canCreateRequest, replaced, validated, waiter>>

cancel(error) ==
    LET acts == ~_observeOnly /\ ~StrictEq(_phase, Num(PHASE_CANCELLED))
        delegates == acts /\ Truthy(_verifier)
        sends == acts /\ ~Truthy(_verifier)
    IN  /\ sends => pending < MaxPending
        /\ _cancellingUserId' = IF sends THEN OwnUserId ELSE _cancellingUserId
        /\ pending' = IF sends THEN pending + 1 ELSE pending
        /\ last' = [NoCall EXCEPT !.delegated = delegates,
                                  !.sent = IF sends THEN CANCEL_TYPE ELSE "",
                                  !.content = IF sends
                                              THEN [code |-> Default(error.code, "m.user"),
                                                    reason |-> Default(error.reason, "User declined")]
                                              ELSE NoContent]
        /\ UNCHANGED <<_phase, _commonMethods, _eventsByUs, _eventsByThem, _observeOnly,
                       _verifier, _initiatedByMe, canCreateRequest, replaced, validated, waiter>>

Cancel == \E error \in CancelArgs : cancel(error)

accept ==
    LET sends == ~_observeOnly /\ StrictEq(_phase, Num(PHASE_REQUESTED)) /\ ~_initiatedByMe
    IN  /\ sends => pending < MaxPending
        /\ pending' = IF sends THEN pending + 1 ELSE pending
        /\ last' = [NoCall EXCEPT !.sent = IF sends THEN READY_TYPE ELSE ""]
        /\ UNCHANGED <<_phase, _commonMethods, _eventsByUs, _eventsByThem, _observeOnly,
                       _verifier, _initiatedByMe, _cancellingUserId, canCreateRequest, replaced,
                       validated, waiter>>

\* one waitFor call is followed in a behaviour
waitFor(fn) ==
    /\ waiter.status = "none"
    /\ \E w \in {check([NoWaiter EXCEPT !.fn = fn, !.status = "pending"], _phase, _verifier)} :
          waiter' = IF w.settleCalls = 0 THEN [w EXCEPT !.subscribed = TRUE] ELSE w
    /\ last' = NoCall
    /\ UNCHANGED <<_phase, _commonMethods, _eventsByUs, _eventsByThem, _observeOnly,
                   _verifier, _initiatedByMe, _cancellingUserId, canCreateRequest,
                   pending, replaced, validated>>

WaitFor == \E fn \in WaitForFns : waitFor(fn)

\* the promise of a channel.send resolves; the awaiting call has nothing left to do
SendComplete ==
    /\ pending > 0
    /\ pending' = pending - 1
    /\ last' = NoCall
    /\ UNCHANGED <<_phase, _commonMethods, _eventsByUs, _eventsByThem, _observeOnly,
                   _verifier, _initiatedByMe, _cancellingUserId, canCreateRequest, replaced,
                   validated, waiter>>

\* ------------------------------------------------------------- validateEvent
null == [kind |-> "null"]
Arr(seq) == [kind |-> "array", val |-> seq]
NaN == [kind |-> "NaN"]
JSTrue == [kind |-> "boolean", val |-> TRUE]
JSFalse == [kind |-> "boolean", val |-> FALSE]
\* the call ends with a TypeError: a property of null was read
TypeError == [kind |-> "throw", val |-> "TypeError"]

\* type.startsWith(prefix)
StartsWith(type, prefix) ==
    Len(type) >= Len(prefix) /\ SubSeq(type, 1, Len(prefix)) = prefix

\* variant: every value that is not undefined counts as a list
ArrayIsArray_defined(v) == Truthy(v)
ArrayIsArray(v) == v.kind = "array"

\* Number.isFinite: FALSE for undefined and for NaN, no coercion
NumberIsFinite(v) == v.kind = "number"

\* variant: the margin is left out
TooOldOrFromFuture_noMargin(elapsed) ==
    \/ elapsed > VERIFICATION_REQUEST_TIMEOUT
    \/ elapsed < -(VERIFICATION_REQUEST_TIMEOUT \div 2)
TooOldOrFromFuture(elapsed) ==
    \/ elapsed > (VERIFICATION_REQUEST_TIMEOUT - VERIFICATION_REQUEST_MARGIN)
    \/ elapsed < -(VERIFICATION_REQUEST_TIMEOUT \div 2)

\* content is event.getContent(), now is Date.now()
validateEvent(type, content, timestamp, now) ==
    IF ~StartsWith(type, EVENT_PREFIX) THEN JSFalse
    ELSE IF type \in {REQUEST_TYPE, READY_TYPE, START_TYPE} /\ content = null THEN TypeError
    ELSE IF type \in {REQUEST_TYPE, READY_TYPE} /\ ~ArrayIsArray(content.methods) THEN JSFalse
    ELSE IF /\ type \in {REQUEST_TYPE, READY_TYPE, START_TYPE}
            /\ \/ content.from_device.kind # "string"
               \/ Len(content.from_device.val) = 0
         THEN JSFalse
    ELSE IF NumberIsFinite(timestamp) /\ TooOldOrFromFuture(now - timestamp.val) THEN JSFalse
    ELSE JSTrue

ValidateTypes ==
    {REQUEST_TYPE, READY_TYPE, START_TYPE, CANCEL_TYPE, DONE_TYPE,
     EVENT_PREFIX \o "accept", "m.room.message", "m.room.encrypted.message"}

ValidateContents ==
    {null} \cup
    {[kind |-> "object", methods |-> m, from_device |-> d] :
        m \in {undefined, Str("sas"), Arr(<<>>), Arr(<<"sas">>)},
        d \in {undefined, Num(7), Str(""), Str(OtherDeviceId)}}

DateNow == 2 * VERIFICATION_REQUEST_TIMEOUT

ElapsedValues ==
    {0, 20 * 60 * 1000}
    \cup {VERIFICATION_REQUEST_TIMEOUT - VERIFICATION_REQUEST_MARGIN + d : d \in -MaxSkew..MaxSkew}
    \cup {-(VERIFICATION_REQUEST_TIMEOUT \div 2) + d : d \in -MaxSkew..MaxSkew}

ValidateTimestamps == {undefined, NaN} \cup {Num(DateNow - e) : e \in ElapsedValues}

NoValidation == [called |-> FALSE]

\* a static method: the request is not touched
ValidateEvent ==
    \E type \in ValidateTypes, content \in ValidateContents, timestamp \in ValidateTimestamps :
        /\ validated' = [called |-> TRUE, type |-> type, content |-> content,
                         timestamp |-> timestamp, now |-> DateNow,
                         result |-> validateEvent(type, content, timestamp, DateNow)]
        /\ UNCHANGED <<_phase, _commonMethods, _eventsByUs, _eventsByThem, _observeOnly,
                       _verifier, _initiatedByMe, _cancellingUserId, canCreateRequest,
                       pending, replaced, last, waiter>>

\* ------------------------------------------------------------ specification
Init ==
    /\ _phase = Num(PHASE_UNSENT)
    /\ _commonMethods = <<>>
    /\ _eventsByUs = EmptyMap
    /\ _eventsByThem = EmptyMap
    /\ _observeOnly = FALSE
    /\ _verifier = undefined
    /\ _initiatedByMe = FALSE
    /\ _cancellingUserId = ""
    /\ canCreateRequest \in BOOLEAN
    /\ pending = 0
    /\ replaced = FALSE
    /\ last = NoCall
    /\ validated = NoValidation
    /\ waiter = NoWaiter

Next ==
    \/ HandleEvent(MaxStored)
    \/ BeginKeyVerification
    \/ sendRequest
    \/ Cancel
    \/ accept
    \/ SendComplete

Spec == Init /\ [][Next]_vars

\* only inbound events, and more of them
NextInbound == HandleEvent(MaxStoredInbound)

SpecInbound == Init /\ [][NextInbound]_vars

\* one waiter, inbound events and beginKeyVerification
NextWait ==
    \/ HandleEvent(MaxStoredWait)
    \/ BeginKeyVerification
    \/ WaitFor

SpecWait == Init /\ [][NextWait]_vars

\* only validateEvent calls
NextValidate == ValidateEvent

SpecValidate == Init /\ [][NextValidate]_vars

TypeOK ==
    /\ _observeOnly \in BOOLEAN
    /\ pending \in 0..MaxPending

\* ------------------------------------------------------------ shared notions
ToSet(seq) == {seq[i] : i \in 1..Len(seq)}

IsCancelled == StrictEq(_phase, Num(PHASE_CANCELLED))
IsDone == StrictEq(_phase, Num(PHASE_DONE))
\* the phase value the code records for a start event, or PHASE_STARTED
IsStarted == StrictEq(_phase, Str(START_TYPE)) \/ StrictEq(_phase, Num(PHASE_STARTED))

HasUs(type) == type \in DOMAIN _eventsByUs
HasThem(type) == type \in DOMAIN _eventsByThem

\* ----------------------------------------------------------------------- C1
\* C1: once the recorded phase is Cancelled or Done, no later call (handleEvent
\* with any valid message, from either side, live or historical) changes it.
C1_TerminalPhaseIsFinal ==
    [][(IsCancelled \/ IsDone) => _phase' = _phase]_vars

\* a request of the counterparty was handled after the cancellation: the
\* request is stored, and its Requested transition never set commonMethods
C1_Witness ==
    /\ IsCancelled
    /\ HasThem(CANCEL_TYPE)
    /\ HasThem(REQUEST_TYPE) /\ _eventsByThem[REQUEST_TYPE].methods = <<"x", "sas">>
    /\ _commonMethods = <<>>
    /\ ~replaced

\* ----------------------------------------------------------------------- C2
\* C2: a cancel event of the local user or of the counterparty that handleEvent
\* has stored leaves the phase Cancelled at the end of that call, whatever the
\* phase was and whatever request/ready/start/done events are stored.
C2_CancelForcesCancelled ==
    (HasUs(CANCEL_TYPE) \/ HasThem(CANCEL_TYPE)) => IsCancelled

\* the local user's cancel arrived when the request was Ready
C2_Witness ==
    /\ IsCancelled
    /\ HasUs(CANCEL_TYPE) /\ ~HasThem(CANCEL_TYPE)
    /\ HasThem(REQUEST_TYPE) /\ HasUs(READY_TYPE)
    /\ _commonMethods = <<"sas">>
    /\ last.applied = 2 /\ last.emitted = 1

\* ----------------------------------------------------------------------- C3
\* C3: handleEvent called with an event that is already stored (same type, same
\* sender, same content) applies no transition, leaves the phase as it is and
\* emits no change notification.
C3_RedeliveryIsNoOp ==
    [][last'.redelivered
          => (_phase' = _phase /\ last'.applied = 0 /\ last'.emitted = 0)]_vars

\* a stored event was handled again while the request was Ready
C3_Witness ==
    /\ last.redelivered
    /\ StrictEq(_phase, Num(PHASE_READY))
    /\ last.applied = 0 /\ last.emitted = 0

\* ----------------------------------------------------------------------- C4
\* the request and the ready event the Ready phase rests on
RequestEvent == _getEventByEither(_eventsByUs, _eventsByThem, REQUEST_TYPE)
ReadyEvent == _getEventByOther(_eventsByUs, _eventsByThem, READY_TYPE, RequestEvent.sender)

\* one request and one ready event were handled, none of them replaced, and
\* one of the two is the local device's
IsPlainPair ==
    /\ StrictEq(_phase, Num(PHASE_READY))
    /\ ~replaced
    /\ HasUs(REQUEST_TYPE) # HasThem(REQUEST_TYPE)
    /\ HasUs(READY_TYPE) # HasThem(READY_TYPE)
    /\ _wasSentByOwnDevice(RequestEvent) # _wasSentByOwnDevice(ReadyEvent)

RemoteOfPair == IF _wasSentByOwnDevice(RequestEvent) THEN ReadyEvent ELSE RequestEvent

MethodsNegotiated ==
    /\ StrictEq(_phase, Num(PHASE_REQUESTED)) \/ StrictEq(_phase, Num(PHASE_READY)) \/ IsStarted
    /\ Truthy(RequestEvent)
    /\ \/ ~_wasSentByOwnDevice(RequestEvent)
       \/ Truthy(ReadyEvent) /\ ~_wasSentByOwnDevice(ReadyEvent)

\* C5: once the methods are negotiated, beginKeyVerification(method) with a
\* method outside commonMethods (the empty commonMethods included) fails with
\* the unknown-method error and leaves the request without a verifier.
C5_UnknownMethodRejected ==
    [][\A method \in BeginMethods, targetDevice \in {undefined, TargetDevice} :
          ( /\ MethodsNegotiated
            /\ ~_observeOnly /\ ~Truthy(_verifier)
            /\ ~Includes(_commonMethods, method)
            /\ beginKeyVerification(method, targetDevice) )
          => (last'.error = "unknownMethod" /\ ~Truthy(_verifier'))]_vars

\* the counterparty advertised only x, nothing is common, and
\* beginKeyVerification("sas", targetDevice) has built a sas verifier
C5_Witness ==
    /\ StrictEq(_phase, Num(PHASE_REQUESTED))
    /\ MethodsNegotiated
    /\ HasThem(REQUEST_TYPE) /\ _eventsByThem[REQUEST_TYPE].methods = <<"x">>
    /\ _commonMethods = <<>>
    /\ Truthy(_verifier) /\ _verifier.method = "sas"
    /\ last.error = ""

\* ----------------------------------------------------------------------- C6
\* a step that stores the first request of the local user while the request is Unsent
StoresOwnRequestOnUnsent ==
    /\ StrictEq(_phase, Num(PHASE_UNSENT))
    /\ ~HasUs(REQUEST_TYPE)
    /\ REQUEST_TYPE \in DOMAIN _eventsByUs'

\* C6 as stated: a request of the local user whose from_device is the local
\* device, handled in phase Unsent, gives phase Requested with observeOnly.
C6_OwnDeviceRequestObserves ==
    [][(StoresOwnRequestOnUnsent /\ _eventsByUs'[REQUEST_TYPE].from_device = OwnDeviceId)
          => (_phase' = Num(PHASE_REQUESTED) /\ _observeOnly')]_vars

\* C6 amended: a request of the local user whose from_device is another device
\* than the local one, handled in phase Unsent with no ready, start or cancel
\* event stored, gives phase Requested with observeOnly; observeOnly stays
\* true, and while it is true accept() and cancel() send nothing and change
\* nothing.
C6_OtherDeviceRequestObserves ==
    [][/\ ( /\ StoresOwnRequestOnUnsent
            /\ _eventsByUs'[REQUEST_TYPE].from_device # OwnDeviceId
            /\ \A type \in {READY_TYPE, START_TYPE, CANCEL_TYPE} :
                  ~HasUs(type) /\ ~HasThem(type) )
          => (_phase' = Num(PHASE_REQUESTED) /\ _observeOnly')
       /\ _observeOnly => _observeOnly'
       /\ (_observeOnly /\ (accept \/ Cancel))
          => (UNCHANGED request /\ UNCHANGED pending /\ last' = NoCall)]_vars

\* the request of the user's other device was handled live, and a call has
\* been made since that gave nothing out
C6_Witness ==
    /\ StrictEq(_phase, Num(PHASE_REQUESTED))
    /\ _observeOnly
    /\ HasUs(REQUEST_TYPE) /\ _eventsByUs[REQUEST_TYPE].from_device = OtherDeviceId
    /\ DOMAIN _eventsByThem = {}
    /\ _cancellingUserId = "" /\ pending = 0
    /\ last = NoCall

\* ----------------------------------------------------------------------- C7
\* C7: when an inbound cancel event has moved the request to Cancelled,
\* cancellingUserId is the sender of that cancel event.
C7_CancellingUserIsSender ==
    (IsCancelled /\ last.applied >= 1)
        => _cancellingUserId = _getEventByEither(_eventsByUs, _eventsByThem, CANCEL_TYPE).sender

\* the counterparty's cancel was handled after its request, and no
\* cancelling user is recorded
C7_Witness ==
    /\ IsCancelled
    /\ HasThem(REQUEST_TYPE) /\ HasThem(CANCEL_TYPE) /\ DOMAIN _eventsByUs = {}
    /\ last.applied = 2 /\ last.emitted = 1
    /\ _cancellingUserId = ""

\* ----------------------------------------------------------------------- C8
\* C8: when the second of the two done events (one of each side) is recorded
\* while the phase is Started, handleEvent moves the phase to Done.
C8_BothDoneGivesDone ==
    [][( /\ IsStarted
         /\ ~(HasUs(DONE_TYPE) /\ HasThem(DONE_TYPE))
         /\ DONE_TYPE \in DOMAIN _eventsByUs' /\ DONE_TYPE \in DOMAIN _eventsByThem' )
          => _phase' = Num(PHASE_DONE)]_vars

\* the counterparty's start and both done events were handled live, and the
\* recorded phase is still the one of the start event
C8_Witness ==
    /\ HasThem(START_TYPE) /\ HasUs(DONE_TYPE) /\ HasThem(DONE_TYPE)
    /\ StrictEq(_phase, Str(START_TYPE))
    /\ ~_observeOnly
    /\ last.applied = 0 /\ ~last.redelivered

\* ----------------------------------------------------------------------- C9
\* the validated message passes the type rule and the content rules
PassesTypeAndContentRules ==
    /\ validated.called
    /\ StartsWith(validated.type, "m.key.verification.")
    /\ validated.type \in {REQUEST_TYPE, READY_TYPE, START_TYPE} =>
          /\ validated.content # null
          /\ validated.content.from_device.kind = "string"
          /\ validated.content.from_device.val # ""
    /\ validated.type \in {REQUEST_TYPE, READY_TYPE} =>
          validated.content.methods.kind = "array"

\* C9: for a message that passes the type and content rules, validateEvent
\* with a finite timestamp rejects exactly when elapsed = now - timestamp is
\* above 597000 ms or below -300000 ms; without a finite timestamp it accepts.
\* validateEvent leaves the request as it is (Unsent here).
C9_TimeWindow ==
    PassesTypeAndContentRules =>
        /\ validated.timestamp.kind = "number" =>
              /\ validated.result \in {JSTrue, JSFalse}
              /\ validated.result = JSFalse <=>
                    \/ validated.now - validated.timestamp.val > 597000
                    \/ validated.now - validated.timestamp.val < -300000
        /\ validated.timestamp.kind # "number" => validated.result = JSTrue
        /\ StrictEq(_phase, Num(PHASE_UNSENT))

\* a well-formed request stamped 20 minutes in the past was rejected
C9_Witness ==
    /\ PassesTypeAndContentRules
    /\ validated.type = REQUEST_TYPE
    /\ validated.timestamp.kind = "number"
    /\ validated.now - validated.timestamp.val = 1200000
    /\ validated.result = JSFalse
    /\ StrictEq(_phase, Num(PHASE_UNSENT))

\* ---------------------------------------------------------------------- C10
\* the validated message is a request or a ready with a content object
ValidatedNegotiation ==
    /\ validated.called
    /\ validated.type \in {REQUEST_TYPE, READY_TYPE}
    /\ validated.content # null

\* C10 as stated: a request or ready whose content does not carry a non-empty
\* list of methods (missing, not a list, or the empty list) is rejected,
\* whatever the other fields are.
C10_NonEmptyMethodListRequired ==
    ( /\ validated.called
      /\ validated.type \in {REQUEST_TYPE, READY_TYPE}
      /\ \/ validated.content = null
         \/ validated.content.methods.kind # "array"
         \/ validated.content.methods.val = <<>> )
        => validated.result # JSTrue

\* C10 amended: a request or ready whose content carries no methods list, or a
\* methods value that is not a list, is rejected whatever the other fields
\* are; the empty list is a list, and is accepted when the other rules pass.
C10_MethodListRequired ==
    ValidatedNegotiation =>
        /\ validated.content.methods.kind # "array" => validated.result = JSFalse
        /\ ( /\ validated.content.methods = Arr(<<>>)
             /\ PassesTypeAndContentRules
             /\ validated.timestamp.kind # "number" )
            => validated.result = JSTrue

\* a ready whose methods value is a string was rejected although its
\* from_device is well-formed and no timestamp was given
C10_Witness ==
    /\ ValidatedNegotiation
    /\ validated.type = READY_TYPE
    /\ validated.content.methods = Str("sas")
    /\ validated.content.from_device = Str(OtherDeviceId)
    /\ validated.timestamp = undefined
    /\ validated.result = JSFalse

\* ---------------------------------------------------------------------- C11
\* C11: the promise of waitFor(fn) is resolved as soon as fn holds of the
\* request, whichever operation produced that state, and rejected as soon as
\* the phase is Cancelled without fn having held; resolve or reject is called
\* at most once, and a settled promise has no listener subscribed.
C11_WaitForSettles ==
    /\ waiter.status = "pending" => (~Fn(waiter.fn, _phase, _verifier) /\ ~IsCancelled)
    /\ waiter.settleCalls <= 1
    /\ waiter.status \in {"resolved", "rejected"} => ~waiter.subscribed

\* waitFor(request => request.verifier) is pending and subscribed although
\* beginKeyVerification has since stored a verifier
C11_Witness ==
    /\ waiter.status = "pending" /\ waiter.subscribed
    /\ waiter.fn = "verifier"
    /\ Truthy(_verifier)
    /\ last = NoCall

\* ---------------------------------------------------------------------- C12
\* C12: a handleEvent call with isLiveEvent = false leaves observeOnly true;
\* observeOnly then stays true, and while it is true no call sends a message
\* on the channel, delegates to a verifier or stores a verifier.
C12_HistoricalObserves ==
    [][/\ \A event \in ValidInbound :
             ~(~_observeOnly' /\ handleEvent(event.type, event, FALSE))
       /\ _observeOnly =>
             /\ _observeOnly'
             /\ pending' <= pending
             /\ last'.sent = "" /\ ~last'.delegated
             /\ _verifier' = _verifier
             /\ _initiatedByMe' = _initiatedByMe
             /\ _cancellingUserId' = _cancellingUserId]_vars

\* a historical ready of the counterparty was handled on the fresh request,
\* which neither changed the phase nor let the later calls send anything
C12_Witness ==
    /\ _observeOnly
    /\ StrictEq(_phase, Num(PHASE_UNSENT))
    /\ DOMAIN _eventsByUs = {} /\ DOMAIN _eventsByThem = {READY_TYPE}
    /\ pending = 0 /\ ~_initiatedByMe /\ ~Truthy(_verifier)
    /\ last = NoCall

\* ---------------------------------------------------------------------- C13
\* C13: accept() sends a ready only when observeOnly is false, the phase is
\* Requested and the request event was not authored by the local device,
\* whether that request came from sendRequest or only through handleEvent.
C13_AcceptOnlyForeignRequest ==
    last.sent = READY_TYPE =>
        /\ ~_observeOnly
        /\ StrictEq(_phase, Num(PHASE_REQUESTED))
        /\ ~_wasSentByOwnDevice(RequestEvent)

\* the local device's own request arrived live through handleEvent only, and
\* accept() has answered it with a ready
C13_Witness ==
    /\ last.sent = READY_TYPE
    /\ StrictEq(_phase, Num(PHASE_REQUESTED))
    /\ DOMAIN _eventsByThem = {} /\ DOMAIN _eventsByUs = {REQUEST_TYPE}
    /\ _wasSentByOwnDevice(_eventsByUs[REQUEST_TYPE])
    /\ ~_initiatedByMe /\ ~_observeOnly

\* ---------------------------------------------------------------------- C14
\* C14: sendRequest, accept, cancel and beginKeyVerification leave the recorded
\* phase as it is, when they are called and when their channel send completes;
\* a step that changes the phase is a handleEvent call that applied a
\* transition.
C14_OnlyHandleEventMovesPhase ==
    [][/\ (sendRequest \/ accept \/ Cancel \/ BeginKeyVerification \/ SendComplete)
             => _phase' = _phase
       /\ _phase' # _phase => (last'.applied >= 1 /\ last'.emitted = 1)]_vars

\* sendRequest was called and its send has completed; the phase is still Unsent
C14_Witness ==
    /\ _initiatedByMe
    /\ pending = 0
    /\ StrictEq(_phase, Num(PHASE_UNSENT))
    /\ DOMAIN _eventsByUs = {} /\ DOMAIN _eventsByThem = {}
    /\ last = NoCall

\* ---------------------------------------------------------------------- C15
\* the place of a phase in the chain Unsent, Requested, Ready, Started; 0 for
\* Cancelled and Done
ChainRank(phase) ==
    IF StrictEq(phase, Num(PHASE_UNSENT)) THEN 1
    ELSE IF StrictEq(phase, Num(PHASE_REQUESTED)) THEN 2
    ELSE IF StrictEq(phase, Num(PHASE_READY)) THEN 3
    ELSE IF StrictEq(phase, Str(START_TYPE)) \/ StrictEq(phase, Num(PHASE_STARTED)) THEN 4
    ELSE 0

\* C15: handleEvent applies only the transitions that follow the recorded
\* phase: the recorded phase never moves back to an earlier phase of the chain
\* Unsent, Requested, Ready, Started, and no more transitions are applied than
\* the phase advances by.
C15_PhaseNeverMovesBack ==
    [][(ChainRank(_phase) > 0 /\ ChainRank(_phase') > 0)
          => /\ ChainRank(_phase') >= ChainRank(_phase)
             /\ last'.applied <= ChainRank(_phase') - ChainRank(_phase)]_vars

\* the local device requested, the counterparty's ready made the request
\* Ready, and the counterparty's own request then took it back to Requested,
\* with the Unsent and Requested transitions applied again
C15_Witness ==
    /\ StrictEq(_phase, Num(PHASE_REQUESTED))
    /\ HasUs(REQUEST_TYPE) /\ _wasSentByOwnDevice(_eventsByUs[REQUEST_TYPE])
    /\ HasThem(READY_TYPE) /\ HasThem(REQUEST_TYPE)
    /\ ~HasUs(READY_TYPE) /\ ~HasUs(START_TYPE) /\ ~HasThem(START_TYPE)
    /\ ~replaced
    /\ last.applied = 2 /\ last.emitted = 1

\* ---------------------------------------------------------------------- C16
\* C16: the recorded phase is the last phase of the transition list computed
\* from the stored events alone. Two delivery orders of one set of events, with
\* at most one event per (type, side), store the same events, so they end in
\* the same recorded phase.
C16_PhaseIsFunctionOfStored ==
    _phase = TopPhase(_calculatePhaseTransitions(_eventsByUs, _eventsByThem, canCreateRequest))

\* the counterparty's ready was delivered before the local device's request:
\* the second call applied Requested and Ready together
C16_Witness ==
    /\ StrictEq(_phase, Num(PHASE_READY))
    /\ DOMAIN _eventsByUs = {REQUEST_TYPE} /\ DOMAIN _eventsByThem = {READY_TYPE}
    /\ ~replaced
    /\ last.applied = 2 /\ last.emitted = 1

\* ---------------------------------------------------------------------- C17
StartEvent == _getEventByEither(_eventsByUs, _eventsByThem, START_TYPE)

\* no cancel is stored, a start is stored, and the phase the request and
\* ready events give is (a) Requested with the start sent by the other sender
\* than the request, (b) Ready, or (c) Unsent on a channel where a start may
\* create the request
StartEligible ==
    /\ ~HasUs(CANCEL_TYPE) /\ ~HasThem(CANCEL_TYPE)
    /\ Truthy(StartEvent)
    /\ IF ~Truthy(RequestEvent) THEN canCreateRequest
       ELSE IF Truthy(ReadyEvent) THEN TRUE
       ELSE RequestEvent.sender # StartEvent.sender

\* C17: the recorded phase is PHASE_STARTED (the value the started accessor
\* tests) exactly when a start is stored and eligible under (a), (b) or (c),
\* until both done events are stored.
C17_StartGivesStarted ==
    /\ (StartEligible /\ ~(HasUs(DONE_TYPE) /\ HasThem(DONE_TYPE)))
          => StrictEq(_phase, Num(PHASE_STARTED))
    /\ StrictEq(_phase, Num(PHASE_STARTED)) => StartEligible

\* request, ready and start were handled: the start is eligible under (b) and
\* the recorded phase is the string START_TYPE
C17_Witness ==
    /\ StartEligible
    /\ HasThem(REQUEST_TYPE) /\ HasUs(READY_TYPE) /\ HasThem(START_TYPE)
    /\ ~replaced
    /\ _phase = Str(START_TYPE)
    /\ ~StrictEq(_phase, Num(PHASE_STARTED))
    /\ last.applied = 1 /\ last.emitted = 1

\* ---------------------------------------------------------------------- C18
\* C18: a handleEvent call that makes the request reach Started, on a request
\* that has no verifier and is not observe-only, stores a verifier for the
\* start event's method in that call; a stored verifier is never replaced.
C18_StartCreatesVerifier ==
    [][/\ ( /\ ~IsStarted /\ IsStarted'
            /\ ~Truthy(_verifier) /\ ~_observeOnly' )
          => ( /\ Truthy(_verifier')
               /\ _verifier'.method
                    = _getEventByEither(_eventsByUs', _eventsByThem', START_TYPE).method )
       /\ Truthy(_verifier) => _verifier' = _verifier]_vars

\* the counterparty's start was handled live on a channel where a start
\* creates the request: the start phase is recorded and no verifier exists
C18_Witness ==
    /\ IsStarted
    /\ DOMAIN _eventsByUs = {} /\ DOMAIN _eventsByThem = {START_TYPE}
    /\ _eventsByThem[START_TYPE].method = "sas"
    /\ ~_observeOnly
    /\ ~Truthy(_verifier)
    /\ last.applied = 1 /\ last.emitted = 1 /\ last.error = ""

C21_ObserveOnlyHasNoVerifier == _observeOnly => ~Truthy(_verifier)

\* the counterparty's request was handled and a verifier created on it by
\* beginKeyVerification; a later handleEvent call then set observeOnly, the
\* verifier staying where it was
C21_Witness ==
    /\ HasThem(REQUEST_TYPE)
    /\ _observeOnly
    /\ Truthy(_verifier) /\ ~_verifier.resumes
    /\ last.applied = 1 /\ last.error = ""

\* ---------------------------------------------------------------------- C22
\* the counterparty's answers to a request: its ready and its start
CounterpartyAnswers ==
    {e \in ValidInbound : e.sender = otherUserId /\ e.type \in {READY_TYPE, START_TYPE}}

\* the stored request is the local device's and nothing has made the request
\* observe-only so far (in particular no event was delivered as non-live)
OwnRequestNegotiating ==
    /\ ~_observeOnly
    /\ HasUs(REQUEST_TYPE)
    /\ _wasSentByOwnDevice(RequestEvent)

\* C22: with every message delivered live and the request authored by the
\* local device, observeOnly is still false after the counterparty's ready
\* takes the request to Ready, and after the counterparty's start takes it to
\* Started.
C22_PartyStaysActive ==
    [][\A event \in CounterpartyAnswers :
          ( /\ OwnRequestNegotiating
            /\ handleEvent(event.type, event, TRUE)
            /\ (StrictEq(_phase', Num(PHASE_READY)) \/ IsStarted') )
          => ~_observeOnly']_vars

\* the local device's request and then the counterparty's ready were handled,
\* one transition each: the request is Ready and observe-only
C22_Witness ==
    /\ DOMAIN _eventsByUs = {REQUEST_TYPE} /\ DOMAIN _eventsByThem = {READY_TYPE}
    /\ _wasSentByOwnDevice(_eventsByUs[REQUEST_TYPE])
    /\ ~replaced
    /\ StrictEq(_phase, Num(PHASE_READY))
    /\ _observeOnly
    /\ last.applied = 1 /\ last.emitted = 1

====
